---- MODULE Spec2Model ----
(***************************************************************************)
(* counterpartylib/lib/messages/dividend.py as a state machine.            *)
(*                                                                         *)
(* State: the ledger database the handlers are given (balances, issuances, *)
(* the dividends and dividend_activations tables), the network             *)
(* configuration, the chain position, and how the last handler ended.      *)
(* Operations: parse (one per dividend transaction), activate (one per     *)
(* block), and the arrival of a block.                                     *)
(* activate_dividend, validate and compose are also run on their own, as   *)
(* the functions of the module they are.                                   *)
(*                                                                         *)
(* Every Python statement is given the meaning the interpreter gives it:   *)
(* reading a name that was never bound raises NameError /                  *)
(* UnboundLocalError, unpacking three values into four names raises        *)
(* ValueError, min(None, n) raises TypeError.  An exception that no        *)
(* handler of the module catches ends the operation where it is raised;    *)
(* the writes made before it stay on the connection, and `failure` names   *)
(* the exception.                                                          *)
(*                                                                         *)
(* Two statements of the file are not well-formed Python and are read in   *)
(* the nearest well-formed way:                                            *)
(*   line 292  validate(..., block_index=tx['block_index'], activation)    *)
(*             is read as passing activation=activation;                   *)
(*   line 190  `continue` outside a loop is read as skipping the rest of   *)
(*             the enclosing block (dividend_total keeps its value 0).     *)
(***************************************************************************)
EXTENDS Integers, Sequences, FiniteSets, TLC

(***************************************************************************)
(* Module constants (lines 13-17) and the configuration the module reads   *)
(* from counterpartylib.lib.config.                                        *)
(***************************************************************************)
LENGTH_1 == 16
LENGTH_2 == 24
ID == 50

BTC == "BTC"
XCP == "XCP"
\* config.UNIT, the subunit scale of a divisible asset, and config.MAX_INT, the
\* largest integer the storage layer holds.  Both are scaled down together
\* (10^8 and 2^63 - 1 in the program) so that every product the handlers form
\* stays inside TLC's 32-bit integers; the fee formulas keep non-zero values.
UNIT == 10000
MAX_INT == 50000
\* config.MAX_ACTIVATION: the largest activation validate accepts.
MAX_ACTIVATION == 1000000
\* protocol-change heights written in the handlers
LAYOUT_2_HEIGHT == 288150
ESCROW_HEIGHT == 294500
SELF_EXCLUSION_HEIGHT == 296000
XCP_WINDOW_START == 317500
XCP_WINDOW_END == 320000
ISSUER_ONLY_HEIGHT == 320000
FEE_HEIGHT == 330000
MIN_ACTIVATION_DELAY == 144
\* config.DEFAULT_MULTISIG_DUST_SIZE
DEFAULT_MULTISIG_DUST_SIZE == 7800

\* Python's None, and a name that was never bound: two values apart from
\* every integer and text the handlers form.
None == -2000000001
Unbound == -2000000002

(***************************************************************************)
(* Bounds of the model.                                                    *)
(***************************************************************************)
\* blocks that arrive after the first one
MaxBlocks == 2
\* dividend transactions parsed in a run
MaxTx == 2

Addresses == {"issuer", "h1", "h2"}
NamedAssets == {"AAA", "BBB"}
Assets == {BTC, XCP} \cup NamedAssets

VARIABLES
    TESTNET,               \* config.TESTNET
    enabled,               \* util.enabled('scheduled_dividends')
    issuances,             \* issuances table: asset -> valid issuances, by tx_index
    escrows,               \* quantities the holders query reports as escrowed
    balances,              \* balances table: <<address, asset>> -> quantity
    dividends,             \* dividends table: a set of rows
    dividend_activations,  \* dividend_activations table: a set of rows
    block_index,           \* height of the block being processed
    blocks,                \* blocks that arrived since the start
    tx_index,              \* index the next transaction gets
    last,                  \* the last operation, its inputs, whether it
                           \* repeats the operation before it, and whether
                           \* its payload was one a layout decodes
    applied,               \* tx_index of the rows activate_dividend was applied to
                           \* in this block, in order
    failure,               \* exception the last operation ended with, or "none"
    call                   \* the call of validate or compose that has not yet
                           \* returned to its caller: its arguments and outcome

vars == <<TESTNET, enabled, issuances, escrows, balances, dividends,
          dividend_activations, block_index, blocks, tx_index, last, applied,
          failure, call>>

config == <<TESTNET, enabled, issuances, escrows>>
chain == <<block_index, blocks>>
tables == <<dividends, dividend_activations>>

(***************************************************************************)
(* Small helpers.                                                          *)
(***************************************************************************)
RECURSIVE SumSeq(_)
SumSeq(s) == IF s = <<>> THEN 0 ELSE Head(s) + SumSeq(Tail(s))

Last(s) == s[Len(s)]

Min(a, b) == IF a <= b THEN a ELSE b

\* The order in which the ledger lists addresses.
AddressOrder == <<"issuer", "h1", "h2">>

(***************************************************************************)
(* Status strings.                                                         *)
(***************************************************************************)
\* '; '.join(problems)
RECURSIVE Join(_)
Join(problems) ==
    IF problems = <<>> THEN ""
    ELSE IF Len(problems) = 1 THEN problems[1]
    ELSE problems[1] \o "; " \o Join(Tail(problems))

InvalidStatus(problems) == "invalid: " \o Join(problems)

Member(problems, p) == \E i \in 1..Len(problems) : problems[i] = p

(***************************************************************************)
(* The ledger collaborators the module calls (counterpartylib.lib.util).   *)
(***************************************************************************)
HasBalance(bal, address, asset) == <<address, asset>> \in DOMAIN bal
Balance(bal, address, asset) ==
    IF HasBalance(bal, address, asset) THEN bal[<<address, asset>>] ELSE 0

\* util.holders(db, asset): the addresses with a non-zero balance, in ledger
\* order, then the escrowed quantities.
RECURSIVE BalanceHolders(_, _, _)
BalanceHolders(bal, asset, i) ==
    IF i > Len(AddressOrder) THEN <<>>
    ELSE LET a == AddressOrder[i]
             rest == BalanceHolders(bal, asset, i + 1)
         IN IF Balance(bal, a, asset) > 0
            THEN <<[address |-> a, address_quantity |-> Balance(bal, a, asset),
                    escrow |-> FALSE]>> \o rest
            ELSE rest

RECURSIVE EscrowHolders(_, _)
EscrowHolders(esc, asset) ==
    IF esc = <<>> THEN <<>>
    ELSE (IF Head(esc).asset = asset THEN <<Head(esc)>> ELSE <<>>)
         \o EscrowHolders(Tail(esc), asset)

holders(bal, esc, asset) ==
    BalanceHolders(bal, asset, 1) \o
    [i \in 1..Len(EscrowHolders(esc, asset)) |->
        [address |-> EscrowHolders(esc, asset)[i].address,
         address_quantity |-> EscrowHolders(esc, asset)[i].quantity,
         escrow |-> TRUE]]

\* util.credit / util.debit on the balances table.
credit(bal, address, asset, quantity) ==
    [k \in DOMAIN bal \cup {<<address, asset>>} |->
        IF k = <<address, asset>> THEN Balance(bal, address, asset) + quantity
        ELSE bal[k]]

CanDebit(bal, address, asset, quantity) ==
    asset # BTC /\ Balance(bal, address, asset) >= quantity

debit(bal, address, asset, quantity) ==
    [k \in DOMAIN bal \cup {<<address, asset>>} |->
        IF k = <<address, asset>> THEN Balance(bal, address, asset) - quantity
        ELSE bal[k]]

\* util.get_asset_name(db, asset_id, block_index): the name of an asset
\* identifier, or AssetNameError for one that names no asset.
AssetIds == [a \in Assets |->
    CASE a = BTC -> 0 [] a = XCP -> 1 [] a = "AAA" -> 2 [] a = "BBB" -> 3]
KnownAssetId(id) == \E a \in Assets : AssetIds[a] = id
get_asset_name(id) == CHOOSE a \in Assets : AssetIds[a] = id

Issuances(asset) == IF asset \in DOMAIN issuances THEN issuances[asset] ELSE <<>>

(***************************************************************************)
(* validate (lines 113-244).  The db it reads is the current state.        *)
(***************************************************************************)
\* int(x) of a quotient: truncation towards zero.
Trunc(n, d) == IF n >= 0 THEN n \div d ELSE -((-n) \div d)

\* lines 92-96, 187-192, 204-208: quantity * quantity_per_unit, divided by
\* UNIT if the held asset is divisible, divided by UNIT again if the dividend
\* asset is not divisible, truncated.  Below 2^52 the two float divisions of
\* the program and the integer division agree.
Scale(divisible, dividend_divisible) ==
    (IF divisible THEN UNIT ELSE 1) * (IF ~dividend_divisible THEN UNIT ELSE 1)

DividendQuantity(quantity, quantity_per_unit, divisible, dividend_divisible) ==
    Trunc(quantity * quantity_per_unit, Scale(divisible, dividend_divisible))

\* lines 95, 190, 207: dividend_asset == BTC and dividend_quantity < dust.
\* BTC is divisible, so the quantity compared is the product over the held
\* asset's scale.
BelowDust(quantity, quantity_per_unit, divisible, dividend_asset) ==
    /\ dividend_asset = BTC
    /\ quantity * quantity_per_unit
          < DEFAULT_MULTISIG_DUST_SIZE * (IF divisible THEN UNIT ELSE 1)

\* XcpHoldersBarred the other way round: refused inside the window on the
\* production network, allowed elsewhere.
XcpHoldersBarredAs(blk) ==
    blk >= XCP_WINDOW_START /\ blk < XCP_WINDOW_END /\ ~TESTNET

\* line 120: the heights and the network at which a dividend to the holders
\* of XCP is refused.
XcpHoldersBarred(blk) ==
    ~(blk >= XCP_WINDOW_START) \/ blk >= XCP_WINDOW_END \/ TESTNET

\* lines 117-143.  An activation is None or an integer here, so the
\* isinstance test of line 134 adds nothing.  (The text of line 124 is
\* written there with the hyphen U+2010.)
RuleProblems(quantity_per_unit, asset, blk, activation) ==
    (IF asset = BTC THEN <<"cannot pay dividends to holders of " \o BTC>> ELSE <<>>)
    \o (IF asset = XCP /\ XcpHoldersBarred(blk)
        THEN <<"cannot pay dividends to holders of " \o XCP>> ELSE <<>>)
    \o (IF quantity_per_unit <= 0 THEN <<"non-positive quantity per unit">> ELSE <<>>)
    \o (IF quantity_per_unit > MAX_INT THEN <<"integer overflow">> ELSE <<>>)
    \o (IF activation = None THEN <<>>
        ELSE IF ~enabled THEN <<"scheduled dividends are not enabled">>
        ELSE (IF activation < 0 THEN <<"negative activation">> ELSE <<>>)
          \o (IF activation <= blk
              THEN <<"activation must be future block height">> ELSE <<>>)
          \o (IF activation - blk < MIN_ACTIVATION_DELAY
              THEN <<"activation must be 144 or more blocks from now">> ELSE <<>>)
          \o (IF activation > MAX_ACTIVATION THEN <<"activation overflow">> ELSE <<>>))

\* LockedProblem on the first issuance of the list instead of the last.
LockedProblemAs(activation, iss) ==
    IF activation # None /\ ~iss[1].locked
    THEN <<"asset and dividend_asset must be locked">> ELSE <<>>

\* lines 157-160 and 172-175: issuances[-1]['locked'] of the list bound to
\* `issuances` at that point.
LockedProblem(activation, iss) ==
    IF activation # None /\ ~Last(iss).locked
    THEN <<"asset and dividend_asset must be locked">> ELSE <<>>

\* lines 194-212: the per-holder loop of an immediate dividend.
RECURSIVE Outputs(_, _, _, _, _, _, _)
Outputs(hs, source, quantity_per_unit, divisible, dividend_divisible, dividend_asset, blk) ==
    IF hs = <<>> THEN <<>>
    ELSE LET holder == Head(hs)
             rest == Outputs(Tail(hs), source, quantity_per_unit, divisible,
                             dividend_divisible, dividend_asset, blk)
         IN IF blk < ESCROW_HEIGHT /\ ~TESTNET /\ holder.escrow THEN rest
            ELSE IF (blk >= SELF_EXCLUSION_HEIGHT \/ TESTNET)
                     /\ holder.address = source THEN rest
            ELSE IF BelowDust(holder.address_quantity, quantity_per_unit,
                              divisible, dividend_asset) THEN rest
            ELSE <<[address |-> holder.address,
                    address_quantity |-> holder.address_quantity,
                    dividend_quantity |->
                        DividendQuantity(holder.address_quantity, quantity_per_unit,
                                         divisible, dividend_divisible)]>> \o rest

\* lines 183-192: the total of a scheduled dividend, over the issued quantity.
ScheduledTotal(asset, quantity_per_unit, divisible, dividend_divisible, dividend_asset) ==
    LET asset_issuance ==
            SumSeq([i \in 1..Len(Issuances(asset)) |-> Issuances(asset)[i].quantity])
    IN IF BelowDust(asset_issuance, quantity_per_unit, divisible, dividend_asset)
       THEN 0
       ELSE DividendQuantity(asset_issuance, quantity_per_unit, divisible,
                             dividend_divisible)

\* lines 221-228
Fee(blk, activation, outputs) ==
    LET holder_count == Cardinality({outputs[i].address : i \in 1..Len(outputs)})
    IN IF blk >= FEE_HEIGHT \/ TESTNET
       THEN IF activation # None THEN (2 * UNIT) \div 100
            ELSE (2 * UNIT * holder_count) \div 10000
       ELSE 0

InsufficientFunds(source, asset, quantity) ==
    IF ~HasBalance(balances, source, asset) \/ Balance(balances, source, asset) < quantity
    THEN <<"insufficient funds (" \o asset \o ")">> ELSE <<>>

\* lines 149 and 169: the early returns.
EarlyReturn(problems) ==
    [dividend_total |-> None, outputs |-> None, problems |-> problems, fee |-> 0]

\* lines 152-160, for a held asset with a valid issuance.
IssuerProblems(source, asset, blk, activation) ==
    (IF (blk >= ISSUER_ONLY_HEIGHT \/ TESTNET) /\ Last(Issuances(asset)).issuer # source
     THEN <<"only issuer can pay dividends">> ELSE <<>>)
    \o LockedProblem(activation, Issuances(asset))

\* lines 163-166: `issuances` is rebound only for a named dividend asset.
\* (The query of line 166 has no ORDER BY; the ledgers of this model hold at
\* most one issuance of a dividend asset.)
DividendIssuances(asset, dividend_asset) ==
    IF dividend_asset \in {BTC, XCP} THEN Issuances(asset)
    ELSE Issuances(dividend_asset)

DividendDivisible(asset, dividend_asset) ==
    IF dividend_asset \in {BTC, XCP} THEN TRUE
    ELSE DividendIssuances(asset, dividend_asset)[1].divisible

\* lines 178-212
PlanOutputs(source, quantity_per_unit, asset, dividend_asset, blk, activation) ==
    IF activation # None THEN <<>>
    ELSE Outputs(holders(balances, escrows, asset), source, quantity_per_unit,
                 Issuances(asset)[1].divisible,
                 DividendDivisible(asset, dividend_asset), dividend_asset, blk)

PlanTotal(quantity_per_unit, asset, dividend_asset, activation, outputs) ==
    IF activation # None
    THEN ScheduledTotal(asset, quantity_per_unit, Issuances(asset)[1].divisible,
                        DividendDivisible(asset, dividend_asset), dividend_asset)
    ELSE SumSeq([i \in 1..Len(outputs) |-> outputs[i].dividend_quantity])

\* lines 214-219
PayoutProblems(source, dividend_asset, dividend_total) ==
    (IF dividend_total = 0 THEN <<"zero dividend">> ELSE <<>>)
    \o (IF dividend_asset # BTC
        THEN InsufficientFunds(source, dividend_asset, dividend_total) ELSE <<>>)

\* lines 221-228
PlanFee(problems, dividend_asset, blk, activation, outputs) ==
    IF problems = <<>> /\ dividend_asset # BTC
    THEN Fee(blk, activation, outputs) ELSE 0

\* FeeProblems without the balance check.
FeeProblemsAs(source, fee) == <<>>

\* lines 229-232
FeeProblems(source, fee) ==
    IF fee # 0 THEN InsufficientFunds(source, XCP, fee) ELSE <<>>

\* TotalCostProblems without the combined check.
TotalCostProblemsAs(problems, source, dividend_asset, dividend_total, fee) == <<>>

\* lines 234-237
TotalCostProblems(problems, source, dividend_asset, dividend_total, fee) ==
    IF problems = <<>> /\ dividend_asset = XCP
    THEN InsufficientFunds(source, dividend_asset, dividend_total + fee) ELSE <<>>

\* lines 239-241
OverflowProblems(dividend_total, fee) ==
    IF fee > MAX_INT \/ dividend_total > MAX_INT
    THEN <<"integer overflow">> ELSE <<>>

\* lines 214-244, given the problems so far and the plan.
Settle(problems, source, dividend_asset, blk, activation, outputs, dividend_total) ==
    LET p5 == problems \o PayoutProblems(source, dividend_asset, dividend_total)
    IN LET fee == PlanFee(p5, dividend_asset, blk, activation, outputs)
       IN LET p6 == p5 \o FeeProblems(source, fee)
          IN [dividend_total |-> dividend_total, outputs |-> outputs,
              problems |-> p6
                  \o TotalCostProblems(p6, source, dividend_asset, dividend_total, fee)
                  \o OverflowProblems(dividend_total, fee),
              fee |-> fee]

\* lines 162-244, for a held asset with a valid issuance.
ValidateDividendAsset(problems, source, quantity_per_unit, asset, dividend_asset, blk, activation) ==
    IF DividendIssuances(asset, dividend_asset) = <<>>
    THEN EarlyReturn(problems
                     \o <<"no such dividend asset, " \o dividend_asset \o ".">>)
    ELSE LET outputs == PlanOutputs(source, quantity_per_unit, asset,
                                    dividend_asset, blk, activation)
         IN Settle(problems
                     \o LockedProblem(activation,
                                      DividendIssuances(asset, dividend_asset)),
                   source, dividend_asset, blk, activation, outputs,
                   PlanTotal(quantity_per_unit, asset, dividend_asset, activation,
                             outputs))

validate(source, quantity_per_unit, asset, dividend_asset, blk, activation) ==
    IF Issuances(asset) = <<>>
    THEN EarlyReturn(RuleProblems(quantity_per_unit, asset, blk, activation)
                     \o <<"no such asset, " \o asset \o ".">>)
    ELSE ValidateDividendAsset(
             RuleProblems(quantity_per_unit, asset, blk, activation)
                 \o IssuerProblems(source, asset, blk, activation),
             source, quantity_per_unit, asset, dividend_asset, blk, activation)

(***************************************************************************)
(* compose (lines 246-262).                                                *)
(***************************************************************************)
\* FORMAT_2 = '>QQQ' (line 15): the number of 64-bit fields it names.
FORMAT_2_FIELDS == 3

\* A payload with no bytes.
NoData == [words |-> <<>>, extra |-> 0]

\* struct.pack(format, *values): one big-endian 64-bit word per field.  It
\* raises struct.error unless it is given exactly one value per field, each an
\* unsigned integer.
Pack(fields, values) ==
    IF \/ Len(values) # fields
       \/ \E i \in 1..Len(values) : values[i] = None \/ values[i] < 0
    THEN [raised |-> "struct.error", words |-> <<>>]
    ELSE [raised |-> "none", words |-> values]

\* util.get_asset_id(db, asset, block_index)
get_asset_id(asset) == AssetIds[asset]

\* lines 256: the destinations of a dividend paid in BTC.
RECURSIVE Destinations(_)
Destinations(outputs) ==
    IF outputs = <<>> THEN <<>>
    ELSE <<[address |-> Head(outputs).address,
            quantity |-> Head(outputs).dividend_quantity]>>
         \o Destinations(Tail(outputs))

\* The ledgers of the model hold no subasset, so the names
\* util.resolve_subasset_longname is given (lines 248-249) are the names it
\* returns.  Line 251 hands validate no activation: its parameter keeps the
\* default None.  Line 261 hands struct.pack four values for the three fields
\* of FORMAT_2.  `data` is the payload that follows the message-type prefix
\* message_type.pack(ID).
compose(source, quantity_per_unit, asset, dividend_asset, activation) ==
    LET v == validate(source, quantity_per_unit, asset, dividend_asset,
                      block_index, None)
        nothing == [destinations |-> <<>>, has_data |-> FALSE, prefix |-> None,
                    data |-> NoData]
    IN IF v.problems # <<>> THEN [raised |-> "ComposeError"] @@ nothing
       ELSE IF dividend_asset = BTC
       THEN [raised |-> "none", destinations |-> Destinations(v.outputs)] @@ nothing
       ELSE LET packed == Pack(FORMAT_2_FIELDS,
                               <<quantity_per_unit, get_asset_id(asset),
                                 get_asset_id(dividend_asset), activation>>)
            IN IF packed.raised # "none"
               THEN [raised |-> packed.raised] @@ nothing
               ELSE [raised |-> "none", destinations |-> <<>>, has_data |-> TRUE,
                     prefix |-> ID, data |-> [words |-> packed.words, extra |-> 0]]

(***************************************************************************)
(* parse (lines 264-332).                                                  *)
(***************************************************************************)
\* A payload is its 64-bit big-endian words and the bytes left over.
MessageLength(message) == 8 * Len(message.words) + message.extra

\* lines 268-283.  struct.unpack(FORMAT_2, message) yields three values and
\* line 270 binds four names, which raises ValueError before any of them is
\* bound; the except clause of line 281 does not name ValueError.  The
\* LENGTH_1 branch binds no `activation`.
Unpack(message, blk) ==
    LET could_not_unpack ==
            [raised |-> "none", quantity_per_unit |-> None, asset |-> None,
             dividend_asset |-> None, activation |-> None,
             status |-> "invalid: could not unpack"]
    IN IF (blk > LAYOUT_2_HEIGHT \/ TESTNET) /\ MessageLength(message) = LENGTH_2
       THEN [raised |-> "ValueError", quantity_per_unit |-> Unbound,
             asset |-> Unbound, dividend_asset |-> Unbound,
             activation |-> Unbound, status |-> Unbound]
       ELSE IF MessageLength(message) = LENGTH_1
       THEN IF KnownAssetId(message.words[2])
            THEN [raised |-> "none", quantity_per_unit |-> message.words[1],
                  asset |-> get_asset_name(message.words[2]),
                  dividend_asset |-> XCP, activation |-> Unbound,
                  status |-> "valid"]
            ELSE could_not_unpack
       ELSE could_not_unpack

\* lines 269-278: the payloads the two layouts decode at a height: one of
\* LENGTH_1 or, past the gate of line 269, of LENGTH_2, whose asset
\* identifiers name assets.
Decodable(message, blk) ==
    IF (blk > LAYOUT_2_HEIGHT \/ TESTNET) /\ MessageLength(message) = LENGTH_2
    THEN KnownAssetId(message.words[2]) /\ KnownAssetId(message.words[3])
    ELSE MessageLength(message) = LENGTH_1 /\ KnownAssetId(message.words[2])

\* lines 302-303
RECURSIVE CreditOutputs(_, _, _)
CreditOutputs(bal, outputs, asset) ==
    IF outputs = <<>> THEN bal
    ELSE CreditOutputs(credit(bal, Head(outputs).address, asset,
                              Head(outputs).dividend_quantity),
                       Tail(outputs), asset)

\* lines 295-309: the debits of a valid or pending dividend, then the credits
\* of a valid one.  util.debit raises on a quantity the balance does not hold.
Apply(bal, tx, status, dividend_asset, v) ==
    IF status \notin {"valid", "pending"} THEN [raised |-> "none", balances |-> bal]
    ELSE IF ~CanDebit(bal, tx.source, dividend_asset, v.dividend_total)
    THEN [raised |-> "DebitError", balances |-> bal]
    ELSE
    LET b1 == debit(bal, tx.source, dividend_asset, v.dividend_total)
        fee_due == tx.block_index >= FEE_HEIGHT \/ TESTNET
    IN IF fee_due /\ ~CanDebit(b1, tx.source, XCP, v.fee)
       THEN [raised |-> "DebitError", balances |-> b1]
       ELSE
       LET b2 == IF fee_due THEN debit(b1, tx.source, XCP, v.fee) ELSE b1
       IN [raised |-> "none",
           balances |-> IF status = "valid"
                        THEN CreditOutputs(b2, v.outputs, dividend_asset) ELSE b2]

\* lines 312-323 and the column the tenth value of line 326 lands in.
Row(tx, asset, dividend_asset, quantity_per_unit, fee, status, activation) ==
    [tx_index |-> tx.tx_index, tx_hash |-> tx.tx_hash,
     block_index |-> tx.block_index, source |-> tx.source, asset |-> asset,
     dividend_asset |-> dividend_asset, quantity_per_unit |-> quantity_per_unit,
     fee_paid |-> fee, status |-> status, activate_index |-> activation]

\* line 325: "integer overflow" in status.  The only status texts that hold
\* it are those joined from a problem list with that problem in it.
InStatus(status, problems) ==
    status = InvalidStatus(problems) /\ Member(problems, "integer overflow")

\* lines 325-330.  Without the scheduled_dividends feature initialise adds no
\* tenth column (lines 43-48) and the ten-value insert fails.
Insert(table, row, problems) ==
    IF InStatus(row.status, problems)
    THEN [raised |-> "none", dividends |-> table]
    ELSE IF ~enabled THEN [raised |-> "OperationalError", dividends |-> table]
    ELSE [raised |-> "none", dividends |-> table \cup {row}]

\* The whole of parse: what it leaves in the tables and how it ends.
ParseResult(tx, message) ==
    LET u == Unpack(message, tx.block_index)
        unchanged == [balances |-> balances, dividends |-> dividends]
    IN
    IF u.raised # "none" THEN unchanged @@ [failure |-> u.raised]
    ELSE
    LET status1 == IF u.dividend_asset = BTC
                   THEN "invalid: cannot pay " \o BTC \o " dividends within protocol"
                   ELSE u.status
    IN
    \* line 288: `status == 'valid' or 'pending'` is true for every status
    \* line 290: min(None, config.MAX_INT)
    IF u.quantity_per_unit = None THEN unchanged @@ [failure |-> "TypeError"]
    \* line 292: the LENGTH_1 branch left `activation` unbound
    ELSE IF u.activation = Unbound THEN unchanged @@ [failure |-> "UnboundLocalError"]
    ELSE
    LET quantity_per_unit == Min(u.quantity_per_unit, MAX_INT)
        v == validate(tx.source, quantity_per_unit, u.asset, u.dividend_asset,
                      tx.block_index, u.activation)
        status == IF v.problems # <<>> THEN InvalidStatus(v.problems) ELSE status1
        a == Apply(balances, tx, status, u.dividend_asset, v)
    IN
    IF a.raised # "none"
    THEN [balances |-> a.balances, dividends |-> dividends, failure |-> a.raised]
    ELSE
    LET i == Insert(dividends,
                    Row(tx, u.asset, u.dividend_asset, quantity_per_unit, v.fee,
                        status, u.activation),
                    v.problems)
    IN [balances |-> a.balances, dividends |-> i.dividends, failure |-> i.raised]

(***************************************************************************)
(* activate_dividend (lines 71-111) and activate (lines 334-344).          *)
(***************************************************************************)
\* UpdateStatus without its where clause.
UpdateStatusAs(table, tx_hash, status) ==
    {[d EXCEPT !.status = status] : d \in table}

\* lines 75-80: update dividends set status = :status where tx_hash = :tx_hash
UpdateStatus(table, tx_hash, status) ==
    {IF d.tx_hash = tx_hash THEN [d EXCEPT !.status = status] ELSE d : d \in table}

\* activate_dividend crediting every holder of the held asset the whole
\* scheduled total.
activate_dividend_as(dividend, status, blk) ==
    LET hs == holders(balances, escrows, dividend.asset)
        total == ScheduledTotal(dividend.asset, dividend.quantity_per_unit,
                                Issuances(dividend.asset)[1].divisible,
                                DividendDivisible(dividend.asset,
                                                  dividend.dividend_asset),
                                dividend.dividend_asset)
    IN [dividends |-> UpdateStatus(dividends, dividend.tx_hash, status),
        balances |-> CreditOutputs(balances,
                        [i \in 1..Len(hs) |->
                            [address |-> hs[i].address, dividend_quantity |-> total]],
                        dividend.dividend_asset),
        dividend_activations |-> dividend_activations,
        failure |-> "none"]

\* The module binds no `log` (line 11 imports config, exceptions, util and
\* message_type), so line 81 raises NameError after the update of line 80;
\* the credits of lines 83-98 and the insert of lines 100-109 are not
\* reached.
activate_dividend(dividend, status, blk) ==
    [dividends |-> UpdateStatus(dividends, dividend.tx_hash, status),
     balances |-> balances,
     dividend_activations |-> dividend_activations,
     failure |-> "NameError"]

\* lines 338-340: the rows the query of activate returns.
Selected(table, blk) ==
    {d \in table : d.status = "pending" /\ d.activate_index < blk}

\* activate with the names of line 341 the other way round
\* (`for dividend in dividends`): the loop reaches activate_dividend.
activate_as(blk) ==
    IF ~enabled
    THEN [dividends |-> dividends, balances |-> balances,
          dividend_activations |-> dividend_activations,
          failure |-> "OperationalError"]
    ELSE IF Selected(dividends, blk) = {}
    THEN [dividends |-> dividends, balances |-> balances,
          dividend_activations |-> dividend_activations, failure |-> "none"]
    ELSE activate_dividend(
             CHOOSE d \in Selected(dividends, blk) :
                 \A e \in Selected(dividends, blk) : d.tx_index <= e.tx_index,
             "complete", blk)

\* activate: the query, then `for dividends in dividend`, which reads the
\* unbound name `dividend` and raises NameError before the first iteration.
\* Without the scheduled_dividends feature the dividends table has no
\* activate_index column (lines 43-48) and the query itself fails.
activate(blk) ==
    [dividends |-> dividends, balances |-> balances,
     dividend_activations |-> dividend_activations,
     failure |-> IF ~enabled THEN "OperationalError" ELSE "NameError"]

(***************************************************************************)
(* The inputs the operations are given.                                    *)
(***************************************************************************)
QuantityWords == {0, 1, MAX_INT + 1}
\* an identifier that names no asset
UnknownAssetIds == {9}
Payloads(blk) ==
    LET seqs ==
            {<<q, a>> : q \in QuantityWords, a \in {0, 1, 2} \cup UnknownAssetIds}
            \cup {<<q, a, d>> : q \in {1, MAX_INT + 1}, a \in {2} \cup UnknownAssetIds,
                               d \in {0, 1, 3}}
            \cup {<<1, 2, d, t>> : d \in {1, 3},
                     t \in {0, blk + MIN_ACTIVATION_DELAY - 1, blk + MIN_ACTIVATION_DELAY}}
            \cup {<<>>}
    IN {[words |-> w, extra |-> 0] : w \in seqs}
       \cup {[words |-> <<1, 2>>, extra |-> 4]}

Sources == {"issuer", "h1"}

\* No call of validate or compose is waiting to return.
NoCall ==
    [op |-> "none", source |-> "", quantity_per_unit |-> 0, asset |-> "",
     dividend_asset |-> "", block_index |-> 0, activation |-> None,
     problems |-> <<>>, dividend_total |-> 0, fee |-> 0, raised |-> "none",
     has_data |-> FALSE, data |-> NoData]

Arguments(source, quantity_per_unit, asset, dividend_asset, blk, activation) ==
    [source |-> source, quantity_per_unit |-> quantity_per_unit, asset |-> asset,
     dividend_asset |-> dividend_asset, block_index |-> blk,
     activation |-> activation]

\* The arguments validate is called with.  A dividend to the holders of AAA is
\* tried with every quantity, dividend asset and activation at three heights;
\* one to the holders of XCP at the heights around the window of line 120;
\* one to the holders of BTC and one to the holders of an asset never issued.
Quantities == {0, 1, UNIT, MAX_INT + 1}
UnissuedAsset == "ZZZ"
DividendAssets == {BTC, XCP, "BBB", UnissuedAsset}
Activations(blk) ==
    {None, -1, 50, 200, blk, blk + MIN_ACTIVATION_DELAY - 1,
     blk + MIN_ACTIVATION_DELAY, MAX_ACTIVATION + 1}
ValidateHeights == {1000, ISSUER_ONLY_HEIGHT, FEE_HEIGHT}
WindowHeights ==
    {XCP_WINDOW_START - 1, XCP_WINDOW_START, XCP_WINDOW_END - 1, XCP_WINDOW_END}

ValidateArguments ==
    UNION {{Arguments(source, q, "AAA", d, blk, a) :
                source \in Sources, q \in Quantities, d \in DividendAssets,
                a \in Activations(blk)} : blk \in ValidateHeights}
    \cup {Arguments("issuer", 1, XCP, XCP, blk, None) :
             blk \in WindowHeights \cup ValidateHeights}
    \cup {Arguments("issuer", 1, a, XCP, FEE_HEIGHT, None) :
             a \in {BTC, UnissuedAsset}}

\* The arguments compose is called with; the height it validates at is
\* util.CURRENT_BLOCK_INDEX, the height of the state.
ComposeArguments ==
    {Arguments(source, q, a, d, block_index, t) :
        source \in Sources, q \in {0, 1, UNIT}, a \in {"AAA", UnissuedAsset},
        d \in {BTC, XCP, "BBB"},
        t \in {None, 0, block_index + MIN_ACTIVATION_DELAY}}

(***************************************************************************)
(* The initial states: a ledger with the assets issued and held, and the   *)
(* dividends tables as initialise (lines 19-68) and earlier blocks left    *)
(* them.                                                                   *)
(***************************************************************************)
StartHeights == {LAYOUT_2_HEIGHT, ISSUER_ONLY_HEIGHT - 1, FEE_HEIGHT - 1}

\* Quantities of AAA are halves of a unit if it is divisible, units if not.
Quantum(divisible) == IF divisible THEN UNIT \div 2 ELSE 1

LedgerIssuances(divisible, locked, escrowed) ==
    LET first == [issuer |-> "issuer", divisible |-> divisible, locked |-> FALSE,
                  quantity |-> (IF escrowed THEN 6 ELSE 5) * Quantum(divisible)]
    IN [a \in NamedAssets |->
         IF a = "AAA"
         THEN IF locked
              THEN <<first, [issuer |-> "issuer", divisible |-> divisible,
                             locked |-> TRUE, quantity |-> 0]>>
              ELSE <<first>>
         ELSE <<[issuer |-> "issuer", divisible |-> FALSE, locked |-> TRUE,
                 quantity |-> 4]>>]

LedgerBalances(divisible) ==
    (<<"issuer", "AAA">> :> 2 * Quantum(divisible))
    @@ (<<"h1", "AAA">> :> 3 * Quantum(divisible))
    @@ (<<"issuer", XCP>> :> 2 * UNIT)
    @@ (<<"issuer", "BBB">> :> 4)

LedgerEscrows(divisible, escrowed) ==
    IF escrowed
    THEN <<[address |-> "h2", asset |-> "AAA", quantity |-> Quantum(divisible)]>>
    ELSE <<>>

\* A row of the dividends table left by an earlier block.  A pending row is
\* one not yet due when the run starts.
OldRow(i, status, activate_index, blk) ==
    [tx_index |-> i, tx_hash |-> i,
     block_index |-> IF status \in {"pending", "complete"}
                     THEN activate_index - MIN_ACTIVATION_DELAY ELSE blk - 1,
     source |-> "issuer", asset |-> "AAA", dividend_asset |-> XCP,
     quantity_per_unit |-> 1, fee_paid |-> 0, status |-> status,
     activate_index |-> activate_index]

OldRows(i, blk) ==
    {{}, {OldRow(i, "valid", None, blk)}}
    \cup (IF i = 1 THEN {{OldRow(i, "invalid: zero dividend", None, blk)}} ELSE {})
    \cup (IF enabled THEN {{OldRow(i, "pending", blk, blk)}} ELSE {})
    \cup (IF enabled /\ i = 1
          THEN {{OldRow(i, "pending", blk + 1, blk)},
                {OldRow(i, "complete", blk - 2, blk)}}
          ELSE {})

Init ==
    /\ TESTNET \in BOOLEAN
    /\ enabled \in BOOLEAN
    /\ block_index \in StartHeights
    /\ blocks = 0
    /\ \E divisible \in BOOLEAN, locked \in BOOLEAN, escrowed \in BOOLEAN :
          /\ issuances = LedgerIssuances(divisible, locked, escrowed)
          /\ balances = LedgerBalances(divisible)
          /\ escrows = LedgerEscrows(divisible, escrowed)
    /\ \E r1 \in OldRows(1, block_index), r2 \in OldRows(2, block_index) :
          /\ dividends = r1 \cup r2
          /\ dividend_activations =
                {[dividend_index |-> d.tx_index, dividend_hash |-> d.tx_hash,
                  source |-> d.source, block_index |-> d.activate_index + 1] :
                    d \in {r \in r1 \cup r2 : r.status = "complete"}}
    /\ tx_index = 3
    /\ last = [op |-> "init", tx_index |-> 0, length |-> 0, repeat |-> FALSE,
              decodable |-> FALSE]
    /\ applied = <<>>
    /\ failure = "none"
    /\ call = NoCall

(***************************************************************************)
(* The operations.                                                         *)
(***************************************************************************)
\* A dividend transaction of the current block is parsed.
Parse ==
    /\ tx_index < 3 + MaxTx
    /\ \E source \in Sources, message \in Payloads(block_index) :
          LET tx == [tx_index |-> tx_index, tx_hash |-> tx_index,
                     block_index |-> block_index, source |-> source]
              r == ParseResult(tx, message)
          IN /\ balances' = r.balances
             /\ dividends' = r.dividends
             /\ failure' = r.failure
             /\ last' = [op |-> "parse", tx_index |-> tx_index,
                         length |-> MessageLength(message), repeat |-> FALSE,
                         decodable |-> Decodable(message, block_index)]
    /\ tx_index' = tx_index + 1
    /\ UNCHANGED <<config, chain, dividend_activations, applied, call>>

\* activate runs for the current block.
Activate ==
    LET r == activate(block_index)
    IN /\ balances' = r.balances
       /\ dividends' = r.dividends
       /\ dividend_activations' = r.dividend_activations
       /\ failure' = r.failure
       /\ last' = [op |-> "activate", tx_index |-> 0, length |-> 0,
                   repeat |-> last.op = "activate", decodable |-> FALSE]
       /\ UNCHANGED <<config, chain, tx_index, applied, call>>

\* The next block arrives.
NewBlock ==
    /\ blocks < MaxBlocks
    /\ block_index' = block_index + 1
    /\ blocks' = blocks + 1
    /\ last' = [op |-> "block", tx_index |-> 0, length |-> 0, repeat |-> FALSE,
              decodable |-> FALSE]
    /\ applied' = <<>>
    /\ failure' = "none"
    /\ UNCHANGED <<config, balances, tables, tx_index, call>>

\* activate_dividend is applied, with the arguments of line 342, to a row
\* the query of activate selects.
ActivateDividend ==
    /\ enabled
    /\ \E dividend \in Selected(dividends, block_index) :
          LET r == activate_dividend(dividend, "complete", block_index)
          IN /\ balances' = r.balances
             /\ dividends' = r.dividends
             /\ dividend_activations' = r.dividend_activations
             /\ failure' = r.failure
             /\ last' = [op |-> "activate_dividend", tx_index |-> dividend.tx_index,
                         length |-> 0, repeat |-> FALSE,
              decodable |-> FALSE]
             /\ applied' = Append(applied, dividend.tx_index)
    /\ UNCHANGED <<config, chain, tx_index, call>>

Next == Parse \/ Activate \/ NewBlock

Spec == Init /\ [][Next]_vars

\* The program's operations, and activate_dividend applied on its own.
NextFn == Parse \/ Activate \/ NewBlock \/ ActivateDividend

SpecFn == Init /\ [][NextFn]_vars

(***************************************************************************)
(* validate and compose called on their own, from a ledger that holds no   *)
(* dividend yet.                                                           *)
(***************************************************************************)
\* The XCP the issuer holds: nothing, the sums a payout and its fee come to
\* in these ledgers and one unit less than each, and plenty.
Funds == {0, 2, 3, 4, 5, 7, 8, 2 * UNIT}
CallHeights == {ISSUER_ONLY_HEIGHT - 1, FEE_HEIGHT}

\* The ledger of Init with the lock of BBB and the issuer's XCP left open.
CallIssuances(divisible, locked, escrowed, dividend_locked) ==
    [a \in NamedAssets |->
        IF a = "BBB"
        THEN <<[LedgerIssuances(divisible, locked, escrowed)[a][1]
                   EXCEPT !.locked = dividend_locked]>>
        ELSE LedgerIssuances(divisible, locked, escrowed)[a]]

CallBalances(divisible, funds) ==
    [k \in DOMAIN LedgerBalances(divisible) |->
        IF k = <<"issuer", XCP>> THEN funds ELSE LedgerBalances(divisible)[k]]

InitCalls ==
    /\ TESTNET \in BOOLEAN
    /\ enabled \in BOOLEAN
    /\ block_index \in CallHeights
    /\ blocks = 0
    /\ \E divisible \in BOOLEAN, locked \in BOOLEAN, escrowed \in BOOLEAN,
          dividend_locked \in BOOLEAN, funds \in Funds :
          /\ issuances = CallIssuances(divisible, locked, escrowed, dividend_locked)
          /\ balances = CallBalances(divisible, funds)
          /\ escrows = LedgerEscrows(divisible, escrowed)
    /\ dividends = {}
    /\ dividend_activations = {}
    /\ tx_index = 3
    /\ last = [op |-> "init", tx_index |-> 0, length |-> 0, repeat |-> FALSE,
              decodable |-> FALSE]
    /\ applied = <<>>
    /\ failure = "none"
    /\ call = NoCall

\* validate is called and computes its result.
Validate ==
    /\ call.op = "none"
    /\ \E x \in ValidateArguments :
          LET v == validate(x.source, x.quantity_per_unit, x.asset,
                            x.dividend_asset, x.block_index, x.activation)
          IN call' = [op |-> "validate", problems |-> v.problems,
                      dividend_total |-> v.dividend_total, fee |-> v.fee,
                      raised |-> "none", has_data |-> FALSE, data |-> NoData] @@ x
    /\ UNCHANGED <<config, chain, balances, tables, tx_index, last, applied, failure>>

\* compose is called and returns or raises.
Compose ==
    /\ call.op = "none"
    /\ \E x \in ComposeArguments :
          LET c == compose(x.source, x.quantity_per_unit, x.asset,
                           x.dividend_asset, x.activation)
          IN call' = [op |-> "compose", problems |-> <<>>, dividend_total |-> 0,
                      fee |-> 0, raised |-> c.raised, has_data |-> c.has_data,
                      data |-> c.data] @@ x
    /\ UNCHANGED <<config, chain, balances, tables, tx_index, last, applied, failure>>

\* The caller takes the result.
Return ==
    /\ call.op # "none"
    /\ call' = NoCall
    /\ UNCHANGED <<config, chain, balances, tables, tx_index, last, applied, failure>>

NextCalls == Validate \/ Compose \/ Return

SpecCalls == InitCalls /\ [][NextCalls]_vars

(***************************************************************************)
(* The properties.                                                         *)
(***************************************************************************)
\* C1: over parse, activate and activate_dividend, a row of the dividends
\* table is never removed and never changed, except that the status of a
\* pending row may become complete.
C1_StatusNeverRegresses ==
    [][\A d \in dividends :
          \E e \in dividends' :
              /\ e.tx_hash = d.tx_hash
              /\ \/ e = d
                 \/ d.status = "pending" /\ e = [d EXCEPT !.status = "complete"]]_vars

\* C1 witness: activate_dividend has just turned a pending row to complete
\* beside a row whose status is valid.
C1_Witness ==
    /\ last.op = "activate_dividend"
    /\ \E d \in dividends : d.tx_index = last.tx_index /\ d.status = "complete"
    /\ \E d \in dividends : d.status = "valid"

\* C4 (as claimed): in the step that turns a pending dividend to complete,
\* every holder of the held asset other than the source is credited the
\* per-holder quantity of the dividend asset.
C4_CreditedAtCompletion ==
    [][\A d \in dividends :
          (/\ d.status = "pending"
           /\ \E e \in dividends' : e.tx_hash = d.tx_hash /\ e.status = "complete")
          => \A a \in Addresses \ {d.source} :
                Balance(balances', a, d.dividend_asset)
                  = Balance(balances, a, d.dividend_asset)
                    + DividendQuantity(Balance(balances, a, d.asset),
                                       d.quantity_per_unit,
                                       Issuances(d.asset)[1].divisible,
                                       DividendDivisible(d.asset, d.dividend_asset))]_vars

\* C5 (as claimed): when activate has run for the current block, no dividend
\* whose activation height is at or below that block is still pending.
C5_DueCompleted ==
    last.op = "activate"
    => \A d \in dividends :
          ~(d.status = "pending" /\ d.activate_index <= block_index)

\* C6: a run of activate that follows a run of activate for the same block,
\* with nothing parsed in between, changes no dividend, no balance and no
\* activation record.
C6_ActivateIdempotent ==
    [][(last.op = "activate" /\ last'.op = "activate")
       => UNCHANGED <<dividends, balances, dividend_activations>>]_vars

\* C6 witness: activate has run twice in a row for a block at which its
\* query selects a pending dividend.
C6_Witness ==
    /\ last.op = "activate"
    /\ last.repeat
    /\ Selected(dividends, block_index) # {}

Ascending(s) == \A i, j \in 1..Len(s) : i < j => s[i] < s[j]

\* C7 (as claimed): when activate has run for a block at which several
\* pending dividends were due, it has handled each of them, in ascending
\* transaction index order.
C7_AscendingOrder ==
    LET due == {d \in dividends :
                  /\ d.activate_index # None
                  /\ d.activate_index < block_index
                  /\ d.status = "pending" \/ Member(applied, d.tx_index)}
    IN (last.op = "activate" /\ Cardinality(due) >= 2)
       => /\ Ascending(applied)
          /\ \A d \in due : Member(applied, d.tx_index)

\* C8 (as claimed): a dividend is complete exactly if it has an activation
\* record, and no dividend has two.
C8_RecordIffComplete ==
    \A d \in dividends :
        /\ d.status = "complete"
             <=> \E r \in dividend_activations : r.dividend_index = d.tx_index
        /\ Cardinality({r \in dividend_activations :
                           r.dividend_index = d.tx_index}) <= 1

\* C9 (as claimed): a parsed transaction whose payload has neither layout's
\* length, so that no validation can report an overflow, is in the
\* dividends table exactly once.
C9_InsertedOnce ==
    (last.op = "parse" /\ last.length \notin {LENGTH_1, LENGTH_2})
    => Cardinality({d \in dividends : d.tx_index = last.tx_index}) = 1

\* C10 (as claimed): parse ends in no unhandled failure, whatever the payload.
C10_DecodingTotal ==
    last.op = "parse" => failure = "none"

\* The transaction that carries the payload of the compose call, parsed at
\* the height compose ran at.
ComposedTx ==
    [tx_index |-> tx_index, tx_hash |-> tx_index,
     block_index |-> call.block_index, source |-> call.source]

\* C11 (as claimed): when compose raises no ComposeError for a dividend paid
\* in a ledger asset, it returns a payload, and parse's decoding of that
\* payload at the same height gives back the quantity_per_unit, asset,
\* dividend_asset and activation compose was given.
C11_RoundTrip ==
    (call.op = "compose" /\ call.raised # "ComposeError" /\ call.dividend_asset # BTC)
    => /\ call.raised = "none"
       /\ call.has_data
       /\ LET u == Unpack(call.data, call.block_index)
          IN /\ u.raised = "none"
             /\ u.status # "invalid: could not unpack"
             /\ u.quantity_per_unit = call.quantity_per_unit
             /\ u.asset = call.asset
             /\ u.dividend_asset = call.dividend_asset
             /\ u.activation = call.activation

\* C12 (as claimed): parse of a payload that a layout decodes and that
\* carries no activation delta (LENGTH_1, or LENGTH_2 past the gate) ends
\* without failure and leaves the transaction no pending dividend: it is
\* settled in parse, not deferred.
C12_ValidWithoutActivation ==
    (last.op = "parse" /\ last.decodable)
    => /\ failure = "none"
       /\ \A d \in dividends : d.tx_index = last.tx_index => d.status # "pending"

ActivationProblems ==
    {"negative activation",
     "activation must be expressed as an integer block delta",
     "activation must be future block height",
     "activation must be 144 or more blocks from now",
     "activation overflow"}

\* C13 (as claimed): with scheduled dividends enabled, validate reads
\* activation as a number of blocks from the submission height: one of 144
\* or more (and within the maximum) brings no activation problem, a smaller
\* one brings 'activation must be 144 or more blocks from now'.
C13_ActivationIsDelta ==
    (/\ call.op = "validate"
     /\ enabled
     /\ call.activation # None
     /\ call.activation >= 0
     /\ call.activation <= MAX_ACTIVATION)
    => IF call.activation >= MIN_ACTIVATION_DELAY
       THEN \A p \in ActivationProblems : ~Member(call.problems, p)
       ELSE Member(call.problems, "activation must be 144 or more blocks from now")

\* The outputs validate plans for the call, and the fee lines 224-228 set for
\* them at the call's height.
CallOutputs ==
    PlanOutputs(call.source, call.quantity_per_unit, call.asset,
                call.dividend_asset, call.block_index, call.activation)
CallFee == Fee(call.block_index, call.activation, CallOutputs)

\* The call is one of validate that paid in XCP and met no problem other than
\* a lack of funds.
XcpCallFundsOnly ==
    /\ call.op = "validate"
    /\ call.dividend_asset = XCP
    /\ \A i \in 1..Len(call.problems) : call.problems[i] = "insufficient funds (XCP)"

\* C14: when the dividend is paid in XCP and every other rule passes, validate
\* reports no problem exactly if the source's XCP balance covers the total
\* payout and the fee together; a balance one unit short of the sum, though it
\* covers each of the two, is reported as insufficient funds.
C14_CombinedCost ==
    XcpCallFundsOnly
    => (call.problems = <<>>
          <=> Balance(balances, call.source, XCP) >= call.dividend_total + CallFee)

\* C14 witness: validate has passed a dividend in XCP that owes a fee, for a
\* source whose balance is the payout plus the fee to the unit.
C14_Witness ==
    /\ XcpCallFundsOnly
    /\ call.problems = <<>>
    /\ CallFee > 0
    /\ Balance(balances, call.source, XCP) = call.dividend_total + CallFee

XcpProblem == "cannot pay dividends to holders of " \o XCP

InXcpWindow(blk) == blk >= XCP_WINDOW_START /\ blk < XCP_WINDOW_END

\* C15 (as claimed): validate reports 'cannot pay dividends to holders of
\* XCP' only at a height inside the window on the production network.
C15_BarredInsideWindow ==
    (call.op = "validate" /\ call.asset = XCP /\ Member(call.problems, XcpProblem))
    => (~TESTNET /\ InXcpWindow(call.block_index))

\* C15 (amended): for a dividend to the holders of XCP validate reports
\* 'cannot pay dividends to holders of XCP' exactly at the heights outside
\* the window and at every height on the test network; inside the window on
\* the production network it does not.
C15_BarredOutsideWindow ==
    (call.op = "validate" /\ call.asset = XCP)
    => (Member(call.problems, XcpProblem)
          <=> (TESTNET \/ ~InXcpWindow(call.block_index)))

\* C15 witness: on the production network, validate has taken a dividend to
\* the holders of XCP at the first height of the window without that problem.
C15_Witness ==
    /\ call.op = "validate"
    /\ call.asset = XCP
    /\ ~TESTNET
    /\ call.block_index = XCP_WINDOW_START
    /\ ~Member(call.problems, XcpProblem)

LockedMessage == "asset and dividend_asset must be locked"

\* C16: for a held asset that exists, validate reports 'asset and
\* dividend_asset must be locked' exactly if an activation is supplied and
\* the latest valid issuance of the held asset, or that of a named dividend
\* asset, is not locked; so a scheduled dividend passes only with both
\* locked, and a dividend without activation is never asked for a lock.
C16_LockedWhenScheduled ==
    (call.op = "validate" /\ Issuances(call.asset) # <<>>)
    => (Member(call.problems, LockedMessage)
          <=> /\ call.activation # None
              /\ \/ ~Last(Issuances(call.asset)).locked
                 \/ /\ call.dividend_asset \notin {BTC, XCP}
                    /\ Issuances(call.dividend_asset) # <<>>
                    /\ ~Last(Issuances(call.dividend_asset)).locked)

\* C16 witness: validate has refused a scheduled dividend paid in BBB for the
\* one reason that BBB is not locked, the held asset having been locked by
\* its second issuance.
C16_Witness ==
    /\ call.op = "validate"
    /\ call.activation # None
    /\ call.asset = "AAA"
    /\ call.dividend_asset = "BBB"
    /\ Len(Issuances("AAA")) = 2
    /\ Last(Issuances("AAA")).locked
    /\ ~Last(Issuances("BBB")).locked
    /\ call.problems = <<LockedMessage>>

NonNegative(bal) == \A k \in DOMAIN bal : bal[k] >= 0

\* What lines 295-309 of parse do to the balances with the result of the
\* validate call, for the status a decoded payload with these fields has when
\* validate reports no problem.
CallApplied ==
    Apply(balances,
          [tx_index |-> tx_index, tx_hash |-> tx_index,
           block_index |-> call.block_index, source |-> call.source],
          IF call.activation = None THEN "valid" ELSE "pending",
          call.dividend_asset,
          validate(call.source, call.quantity_per_unit, call.asset,
                   call.dividend_asset, call.block_index, call.activation))

\* C17: no balance is negative, and for every dividend in a ledger asset that
\* validate passes on a ledger, the debits parse issues on that ledger (the
\* total payout, and the fee where it is due) are each covered when they are
\* made: util.debit does not fail and leaves no balance negative.
C17_DebitsCovered ==
    /\ NonNegative(balances)
    /\ (call.op = "validate" /\ call.problems = <<>> /\ call.dividend_asset # BTC)
       => (CallApplied.raised = "none" /\ NonNegative(CallApplied.balances))

\* C17 witness: validate has passed a scheduled dividend paid in XCP at a
\* height where the fee is due, and the two debits of parse take the total
\* and the fee from the source's XCP.
C17_Witness ==
    /\ call.op = "validate"
    /\ call.problems = <<>>
    /\ call.dividend_asset = XCP
    /\ call.activation # None
    /\ call.fee > 0
    /\ Balance(CallApplied.balances, call.source, XCP)
          = Balance(balances, call.source, XCP) - call.dividend_total - call.fee

\* The units of an asset all addresses hold together.
Held(bal, asset) ==
    SumSeq([i \in 1..Len(AddressOrder) |-> Balance(bal, AddressOrder[i], asset)])

\* A step turns the pending dividend d to complete.
Completes(d) ==
    /\ d.status = "pending"
    /\ \E e \in dividends' : e.tx_hash = d.tx_hash /\ e.status = "complete"

\* C18: in the step that completes a pending dividend, the units of the
\* dividend asset the addresses gain together are no more than the total
\* validate computed over the issued quantity of the held asset, the quantity
\* debited from the source when the dividend was accepted.
C18_NoUnitsCreated ==
    [][\A d \in dividends :
          Completes(d)
          => Held(balances', d.dividend_asset) - Held(balances, d.dividend_asset)
                <= ScheduledTotal(d.asset, d.quantity_per_unit,
                                  Issuances(d.asset)[1].divisible,
                                  DividendDivisible(d.asset, d.dividend_asset),
                                  d.dividend_asset)]_vars

\* C18 witness: activate_dividend has completed a dividend whose held asset
\* has two holders besides the source and whose scheduled total is not zero.
C18_Witness ==
    /\ last.op = "activate_dividend"
    /\ \E d \in dividends :
          /\ d.tx_index = last.tx_index
          /\ d.status = "complete"
          /\ Len(holders(balances, escrows, d.asset)) >= 3
          /\ ScheduledTotal(d.asset, d.quantity_per_unit,
                            Issuances(d.asset)[1].divisible,
                            DividendDivisible(d.asset, d.dividend_asset),
                            d.dividend_asset) > 0

\* C19 (as claimed): a pending dividend is turned to complete only at a
\* height that is at least the height of its transaction plus its
\* activation.
C19_NotBeforeActivation ==
    [][\A d \in dividends :
          Completes(d) => block_index >= d.block_index + d.activate_index]_vars

\* C20 (as claimed): for a dividend paid in a ledger asset, compose raises
\* ComposeError whenever validate, given the same arguments and the
\* activation, reports a problem; and a payload compose returns is one that
\* parse, from the same source at the same height on the same ledger, ends
\* valid or pending on.
C20_ComposeAgreesWithParse ==
    (call.op = "compose" /\ call.dividend_asset # BTC)
    => /\ (validate(call.source, call.quantity_per_unit, call.asset,
                    call.dividend_asset, call.block_index,
                    call.activation).problems # <<>>)
          => call.raised = "ComposeError"
       /\ (call.raised = "none" /\ call.has_data)
          => LET r == ParseResult(ComposedTx, call.data)
             IN /\ r.failure = "none"
                /\ \E d \in r.dividends :
                      d.tx_index = tx_index /\ d.status \in {"valid", "pending"}
====
